---- MODULE Spec2Model ----
(***************************************************************************)
(* A model of src/dummy_algorithm.py (class Agent): the real-time offer    *)
(* builder (_real_time_offer, make_me_an_offer), the opportunity-cost      *)
(* engine (_calculate_opportunity_costs and its helpers), the constraint   *)
(* system of _scheduler and the curve formatter _offer_to_dicts.           *)
(*                                                                         *)
(* Arithmetic is exact: energies are integers in units of 1/Scale MWh, so  *)
(* that mq*5/60 and mq*efficiency*5/60 are both integers; costs of the     *)
(* opportunity-cost engine are integers in units of 1/CostScale.  The      *)
(* rounding of Python floats is not modelled.                              *)
(***************************************************************************)
EXTENDS Integers, Sequences, FiniteSets, TLC

\* ---------------------------------------------------------------- constants
socmax == 608
socmin == 128
chmax == 125
dcmax == 125
\* efficiency = 0.892 = EffNum / EffDen
EffNum == 223
EffDen == 250
duration_minutes == 5
price_ceiling == 999
price_floor == 0
\* the adjustment make_me_an_offer passes to _increase_discharging_offers
adjustment == 1

\* energy units per MWh: one unit is 1/3000 MWh
Scale == (60 \div duration_minutes) * EffDen
\* mq * 5/60, in energy units
Energy(mq) == mq * ((duration_minutes * Scale) \div 60)
\* mq * self.efficiency * 5/60, in energy units
EffEnergy(mq) == (mq * EffNum) * ((duration_minutes * Scale) \div (60 * EffDen))
\* socmax - socmin, in energy units
Capacity == (socmax - socmin) * Scale
\* the tolerance 1e-2 in energy units
Tolerance == Scale \div 100

\* ------------------------------------------------------------------- bounds
\* number of horizon periods (market['timestamps'] is 1..TEnd, in time order)
TEnd == 2
\* most orders a horizon period's ledger holds
MaxOrders == 2
\* most orders the ledger holds for the period after the horizon
MaxPost == 2
\* most periods of a price forecast given to the opportunity-cost engine
MaxN == 5
\* most periods of a schedule of the scheduler's constraints
MaxSteps == 6

Min(a, b) == IF a <= b THEN a ELSE b
Max(a, b) == IF a >= b THEN a ELSE b

RECURSIVE SeqUpTo(_, _)
SeqUpTo(S, n) ==
    IF n = 0 THEN {<< >>}
    ELSE LET shorter == SeqUpTo(S, n - 1)
         IN shorter \cup {Append(s, x) : s \in {q \in shorter : Len(q) = n - 1}, x \in S}

RECURSIVE SumSeq(_)
SumSeq(s) == IF s = << >> THEN 0 ELSE Head(s) + SumSeq(Tail(s))

\* ------------------------------------------------------------------- inputs
\* resource['status'][rid]['soc'], within [socmin, socmax]
InitialSoc == {socmin, socmin + 100, socmax - 1, socmax}
\* orders (mq, mc) of the ledger's horizon periods
Orders == {-6000, -12, 0, 600, 6000} \X {5, 20}
\* orders of the ledger's period after the horizon
PostOrders == {<<600, 20>>, <<6000, 5>>, <<-12, 5>>}
\* what the ledger may hold for period 0, which precedes the horizon
PastLedgers == {<< >>, <<<<6000, 20>>>>}
\* the ledger's periods outside the horizon
OutPeriods == {0, TEnd + 1}

VARIABLES
    pc,                \* position in make_me_an_offer / _real_time_offer
    t,                 \* the horizon period the first loop is at
    n,                 \* orders of period t processed so far
    order,             \* the order processed last
    branch,            \* the case of the ledger walk the last order took
    warnings,          \* warnings logged while processing the last order
    soc_available,
    soc_headroom,
    best_ch_price,
    best_dc_price,
    block_ch_mq, block_ch_mc, block_dc_mq, block_dc_mc,
    block_soc_mq, block_soc_mc,
    ledger_rest,       \* the ledger's periods outside the horizon
    post_market_sorted,
    k,                 \* entries of post_market_sorted walked so far
    remaining_capacity,
    soc_mq, soc_mc,
    saved,             \* the offer _save_json wrote
    \* _calculate_opportunity_costs
    oc_pc,             \* position in _calculate_opportunity_costs
    prices,            \* the price forecast
    charge_mq,         \* the schedule's charge quantities
    discharge_mq,      \* the schedule's discharge quantities
    idx,               \* the period the loop of lines 456-480 is at (from 0)
    charge_list,       \* the charge costs so far, in cost units
    discharge_list,    \* the discharge costs so far, in cost units
    oc_error,          \* the exception that ended the call, "" for none
    \* _scheduler
    sched_pc,          \* position in _scheduler
    number_step,       \* len(prices)
    charge,            \* the values of the solver's charge variables so far
    discharge,         \* the values of the solver's discharge variables so far
    dasoc,             \* dasoc[0], dasoc[1], ..., in units of 1/EffDen MWh
    \* _offer_to_dicts
    d_pc,              \* position in _offer_to_dicts
    mq_list, mc_list,  \* its arguments
    d_i,               \* the period the loop of lines 127-142 is at (from 1)
    mq_dict, mc_dict,
    collate_calls,     \* calls of self.binner.collate so far
    d_error,           \* the exception that ended the call
    d_return           \* what the call returned

rtVars == <<pc, t, n, order, branch, warnings, soc_available, soc_headroom,
            best_ch_price, best_dc_price, block_ch_mq, block_ch_mc,
            block_dc_mq, block_dc_mc, block_soc_mq, block_soc_mc, ledger_rest,
            post_market_sorted, k, remaining_capacity, soc_mq, soc_mc, saved>>

ocVars == <<oc_pc, prices, charge_mq, discharge_mq, idx, charge_list,
            discharge_list, oc_error>>

schedVars == <<sched_pc, number_step, charge, discharge, dasoc>>

dictVars == <<d_pc, mq_list, mc_list, d_i, mq_dict, mc_dict, collate_calls,
              d_error, d_return>>

vars == <<rtVars, ocVars, schedVars, dictVars>>

\* what a step of one of the program's operations leaves alone: the state of
\* the others
RTFrame == UNCHANGED <<ocVars, schedVars, dictVars>>
OCFrame == UNCHANGED <<rtVars, schedVars, dictVars>>
SchedFrame == UNCHANGED <<rtVars, ocVars, dictVars>>
DictsFrame == UNCHANGED <<rtVars, ocVars, schedVars>>

blocks == <<block_ch_mq, block_ch_mc, block_dc_mq, block_dc_mc>>
socBlocks == <<block_soc_mq, block_soc_mc>>
capacity == <<soc_available, soc_headroom>>
bestPrices == <<best_ch_price, best_dc_price>>
walkVars == <<order, branch, warnings>>
postVars == <<ledger_rest, post_market_sorted, k, remaining_capacity, soc_mq, soc_mc>>

NoOrder == <<0, 0>>
NoOffer == [block_ch_mq |-> << >>, block_ch_mc |-> << >>,
            block_dc_mq |-> << >>, block_dc_mc |-> << >>,
            block_soc_mq |-> << >>, block_soc_mc |-> << >>]

\* --------------------------------------------------- Agent._real_time_offer
RTInit ==
    /\ pc = "period"
    /\ t = 1
    /\ n = 0
    /\ order = NoOrder
    /\ branch = "none"
    /\ warnings = << >>
    /\ \E initial_soc \in InitialSoc :
          /\ soc_available = (initial_soc - socmin) * Scale
          /\ soc_headroom = (socmax - initial_soc) * Scale
    /\ best_dc_price = price_floor
    /\ best_ch_price = price_ceiling
    /\ block_ch_mq = << >> /\ block_ch_mc = << >>
    /\ block_dc_mq = << >> /\ block_dc_mc = << >>
    /\ block_soc_mq = << >> /\ block_soc_mc = << >>
    /\ ledger_rest = [p \in OutPeriods |-> << >>]
    /\ post_market_sorted = << >>
    /\ k = 0
    /\ remaining_capacity = 0
    /\ soc_mq = << >> /\ soc_mc = << >>
    /\ saved = NoOffer

\* lines 213-216 and 218-221 / 226-229: the period's curves, seeded with the
\* zero-cost offers of all the capacity
SeedCurves ==
    /\ block_ch_mq' = Append(block_ch_mq, <<chmax>>)
    /\ block_ch_mc' = Append(block_ch_mc, <<0>>)
    /\ block_dc_mq' = Append(block_dc_mq, <<dcmax>>)
    /\ block_dc_mc' = Append(block_dc_mc, <<0>>)

\* period t is no key of the ledger
NoLedgerEntry ==
    /\ pc = "period" /\ t <= TEnd
    /\ SeedCurves
    /\ t' = t + 1
    /\ UNCHANGED <<pc, n, walkVars, capacity, bestPrices, socBlocks, postVars, saved>>
    /\ RTFrame

\* period t is a key of the ledger
BeginPeriod ==
    /\ pc = "period" /\ t <= TEnd
    /\ SeedCurves
    /\ pc' = "orders"
    /\ n' = 0
    /\ UNCHANGED <<t, walkVars, capacity, bestPrices, socBlocks, postVars, saved>>
    /\ RTFrame

\* the case lines 238-263 take for an order of quantity mq
Case(mq, head, avail) ==
    IF -head <= Energy(mq) /\ Energy(mq) < 0 THEN "charge"
    ELSE IF 0 < Energy(mq) /\ Energy(mq) <= avail THEN "discharge"
    ELSE IF Energy(mq) < -head THEN "charge_overflow"
    ELSE IF Energy(mq) > avail THEN "discharge_overflow"
    ELSE "faulty"

\* AvailableAfter with the discharged energy scaled by the efficiency
AvailableAfterScaledDischarge(c, mq, avail) ==
    CASE c = "charge" -> avail + EffEnergy(mq)
      [] c = "discharge" -> avail - EffEnergy(mq)
      [] c = "charge_overflow" -> Capacity
      [] c = "discharge_overflow" -> 0
      [] OTHER -> avail

\* soc_available after an order's case
AvailableAfter(c, mq, avail) ==
    CASE c = "charge" -> avail + EffEnergy(mq)
      [] c = "discharge" -> avail - Energy(mq)
      [] c = "charge_overflow" -> Capacity
      [] c = "discharge_overflow" -> 0
      [] OTHER -> avail

\* HeadroomAfter without the clamp of an overflowing discharge
HeadroomAfterNoClamp(c, mq, head) ==
    CASE c = "charge" -> head - EffEnergy(mq)
      [] c = "discharge" -> head + Energy(mq)
      [] c = "charge_overflow" -> 0
      [] c = "discharge_overflow" -> head + Energy(mq)
      [] OTHER -> head

\* HeadroomAfter with the charged energy not scaled by the efficiency
HeadroomAfterUnscaledCharge(c, mq, head) ==
    CASE c = "charge" -> head - Energy(mq)
      [] c = "discharge" -> head + Energy(mq)
      [] c = "charge_overflow" -> 0
      [] c = "discharge_overflow" -> Capacity
      [] OTHER -> head

\* soc_headroom after an order's case
HeadroomAfter(c, mq, head) ==
    CASE c = "charge" -> head - EffEnergy(mq)
      [] c = "discharge" -> head + Energy(mq)
      [] c = "charge_overflow" -> 0
      [] c = "discharge_overflow" -> Capacity
      [] OTHER -> head

BestChAfter(c, mc, best) ==
    IF c \in {"charge", "charge_overflow"} THEN Min(best, mc) ELSE best

BestDcAfter(c, mc, best) ==
    IF c \in {"discharge", "discharge_overflow"} THEN Max(best, mc) ELSE best

\* the warning of the case itself (lines 253, 258, 263)
CaseWarnings(c) ==
    CASE c = "charge_overflow" -> <<"charge exceeds SoC headroom">>
      [] c = "discharge_overflow" -> <<"discharge exceeds SoC available">>
      [] c = "faulty" -> <<"faulty set of cases">>
      [] OTHER -> << >>

\* the warnings of lines 265-268
BoundWarnings(avail, head) ==
    (IF avail < 0 THEN <<"SoC below min">> ELSE << >>)
    \o (IF head < 0 THEN <<"SoC above max">> ELSE << >>)

\* one pass of the loop of lines 235-268
ProcessOrder ==
    /\ pc = "orders" /\ n < MaxOrders
    /\ \E o \in Orders :
         LET mq == o[1]
             mc == o[2]
             c == Case(mq, soc_headroom, soc_available)
             avail == AvailableAfter(c, mq, soc_available)
             head == HeadroomAfter(c, mq, soc_headroom)
         IN /\ order' = o
            /\ branch' = c
            /\ soc_available' = avail
            /\ soc_headroom' = head
            /\ best_ch_price' = BestChAfter(c, mc, best_ch_price)
            /\ best_dc_price' = BestDcAfter(c, mc, best_dc_price)
            /\ warnings' = CaseWarnings(c) \o BoundWarnings(avail, head)
    /\ n' = n + 1
    /\ UNCHANGED <<pc, t, blocks, socBlocks, postVars, saved>>
    /\ RTFrame

\* the period's ledger has no more orders
EndPeriod ==
    /\ pc = "orders"
    /\ pc' = "period"
    /\ t' = t + 1
    /\ UNCHANGED <<n, walkVars, capacity, bestPrices, blocks, socBlocks, postVars, saved>>
    /\ RTFrame

\* line 210: t_end = max(self.market['timestamps'])
t_end == TEnd

\* line 271: the ledger's periods after t_end
PostMarketPeriods(ledger) == {p \in DOMAIN ledger : p > t_end}

\* line 296: the orders of those periods, period by period
RECURSIVE PostMarketList(_, _)
PostMarketList(ledger, P) ==
    IF P = {} THEN << >>
    ELSE LET p == CHOOSE q \in P : \A r \in P : q <= r
         IN ledger[p] \o PostMarketList(ledger, P \ {p})

\* lines 273-276
RECURSIVE BestChOver(_, _)
BestChOver(list, best) ==
    IF list = << >> THEN best ELSE BestChOver(Tail(list), Min(best, Head(list)[2]))

RECURSIVE BestDcOver(_, _)
BestDcOver(list, best) ==
    IF list = << >> THEN best ELSE BestDcOver(Tail(list), Max(best, Head(list)[2]))

\* lines 270-278: the rest of the ledger is read and widens the best prices
CollectPostMarket ==
    /\ pc = "period" /\ t > TEnd
    /\ \E past \in PastLedgers, post \in SeqUpTo(PostOrders, MaxPost) :
          ledger_rest' = [p \in OutPeriods |-> IF p > TEnd THEN post ELSE past]
    /\ LET list == PostMarketList(ledger_rest', PostMarketPeriods(ledger_rest'))
       IN /\ best_ch_price' = BestChOver(list, best_ch_price)
          /\ best_dc_price' = BestDcOver(list, best_dc_price)
    /\ pc' = "residual"
    /\ UNCHANGED <<t, n, walkVars, capacity, blocks, socBlocks, post_market_sorted,
                   k, remaining_capacity, soc_mq, soc_mc, saved>>
    /\ RTFrame

\* ResidualMq without the tolerance
ResidualMqNoTolerance(mq, pmax) ==
    IF pmax - SumSeq(mq) >= 0 THEN Append(mq, pmax - SumSeq(mq)) ELSE mq

\* ResidualMc with the best price entered whatever the residual is
ResidualMcAlways(mq, mc, pmax, best) == Append(mc, best)

\* lines 282-285 / 288-291: what is left of the capacity pmax after the
\* quantities mq already in a curve is offered at price best, when above 1e-2
ResidualMq(mq, pmax) ==
    IF (pmax - SumSeq(mq)) * 100 > 1 THEN Append(mq, pmax - SumSeq(mq)) ELSE mq
ResidualMc(mq, mc, pmax, best) ==
    IF (pmax - SumSeq(mq)) * 100 > 1 THEN Append(mc, best) ELSE mc

\* lines 280-292, for every period of the horizon
AppendResidual ==
    /\ pc = "residual"
    /\ block_dc_mq' = [p \in DOMAIN block_dc_mq |-> ResidualMq(block_dc_mq[p], dcmax)]
    /\ block_dc_mc' = [p \in DOMAIN block_dc_mc |->
                          ResidualMc(block_dc_mq[p], block_dc_mc[p], dcmax, best_dc_price)]
    /\ block_ch_mq' = [p \in DOMAIN block_ch_mq |-> ResidualMq(block_ch_mq[p], chmax)]
    /\ block_ch_mc' = [p \in DOMAIN block_ch_mc |->
                          ResidualMc(block_ch_mq[p], block_ch_mc[p], chmax, best_ch_price)]
    /\ pc' = "sort"
    /\ UNCHANGED <<t, n, walkVars, capacity, bestPrices, socBlocks, postVars, saved>>
    /\ RTFrame

\* an order put into a list sorted by price, highest first, after the orders
\* of the same price already there (sorted() is stable, also with reverse=True)
RECURSIVE InsertByPrice(_, _)
InsertByPrice(sorted, o) ==
    IF sorted = << >> THEN <<o>>
    ELSE IF Head(sorted)[2] >= o[2] THEN <<Head(sorted)>> \o InsertByPrice(Tail(sorted), o)
    ELSE <<o>> \o sorted

\* SortedByPrice without reverse=True: lowest price first
RECURSIVE InsertByPriceAscending(_, _)
InsertByPriceAscending(sorted, o) ==
    IF sorted = << >> THEN <<o>>
    ELSE IF Head(sorted)[2] <= o[2]
         THEN <<Head(sorted)>> \o InsertByPriceAscending(Tail(sorted), o)
    ELSE <<o>> \o sorted

RECURSIVE SortedByPriceAscending(_)
SortedByPriceAscending(list) ==
    IF list = << >> THEN << >>
    ELSE InsertByPriceAscending(SortedByPriceAscending(SubSeq(list, 1, Len(list) - 1)),
                                list[Len(list)])

\* line 297: sorted(post_market_list, key=lambda tup: tup[1], reverse=True)
RECURSIVE SortedByPrice(_)
SortedByPrice(list) ==
    IF list = << >> THEN << >>
    ELSE InsertByPrice(SortedByPrice(SubSeq(list, 1, Len(list) - 1)), list[Len(list)])

\* lines 296-305
SortPostMarket ==
    /\ pc = "sort"
    /\ post_market_sorted' =
          SortedByPrice(PostMarketList(ledger_rest, PostMarketPeriods(ledger_rest)))
    /\ soc_mq' = << >>
    /\ soc_mc' = << >>
    /\ remaining_capacity' = soc_available
    /\ k' = 0
    /\ pc' = "walk"
    /\ UNCHANGED <<t, n, walkVars, capacity, bestPrices, blocks, socBlocks, ledger_rest, saved>>
    /\ RTFrame

\* the case lines 308-323 take for an order of quantity mq
WalkCase(mq, remaining) ==
    IF 0 < Energy(mq) /\ Energy(mq) <= remaining THEN "valued"
    ELSE IF 0 < remaining /\ remaining < Energy(mq) THEN "exhausts"
    ELSE IF remaining < Tolerance THEN "break"
    ELSE "pass"

\* WalkQuantity with the order's own quantity in the exhausting case as well
WalkQuantityNominal(c, mq, remaining) == mq * Scale

\* the quantity lines 311 and 316 append, in energy units
WalkQuantity(c, mq, remaining) == IF c = "valued" THEN mq * Scale ELSE 0

\* one pass of the loop of lines 306-323
WalkOrder ==
    /\ pc = "walk" /\ k < Len(post_market_sorted)
    /\ LET mq == post_market_sorted[k + 1][1]
           mc == post_market_sorted[k + 1][2]
           c == WalkCase(mq, remaining_capacity)
       IN /\ remaining_capacity' =
                CASE c = "valued" -> remaining_capacity - Energy(mq)
                  [] c = "exhausts" -> 0
                  [] OTHER -> remaining_capacity
          /\ soc_mq' = IF c \in {"valued", "exhausts"}
                       THEN Append(soc_mq, WalkQuantity(c, mq, remaining_capacity'))
                       ELSE soc_mq
          /\ soc_mc' = IF c \in {"valued", "exhausts"} THEN Append(soc_mc, mc) ELSE soc_mc
          /\ pc' = IF c = "break" THEN "tail" ELSE "walk"
    /\ k' = k + 1
    /\ UNCHANGED <<t, n, walkVars, capacity, bestPrices, blocks, socBlocks,
                   ledger_rest, post_market_sorted, saved>>
    /\ RTFrame

\* the loop of lines 306-323 runs out of orders
WalkEnd ==
    /\ pc = "walk" /\ k = Len(post_market_sorted)
    /\ pc' = "tail"
    /\ UNCHANGED <<t, n, walkVars, capacity, bestPrices, blocks, socBlocks, postVars, saved>>
    /\ RTFrame

\* lines 325-327: what is left of soc_available, at the price ceiling
LeftoverMq(mq, remaining) ==
    IF remaining > Tolerance THEN Append(mq, remaining) ELSE mq
LeftoverMc(mc, remaining) ==
    IF remaining > Tolerance THEN Append(mc, price_ceiling) ELSE mc

\* lines 325-329
AppendTail ==
    /\ pc = "tail"
    /\ soc_mq' = Append(LeftoverMq(soc_mq, remaining_capacity), soc_headroom)
    /\ soc_mc' = Append(LeftoverMc(soc_mc, remaining_capacity), 0)
    /\ pc' = "collate"
    /\ UNCHANGED <<t, n, walkVars, capacity, bestPrices, blocks, socBlocks,
                   ledger_rest, post_market_sorted, k, remaining_capacity, saved>>
    /\ RTFrame

\* ou.Binner.collate: the pairs sorted by price, the quantities of one price
\* summed
RECURSIVE InsertBin(_, _, _)
InsertBin(bins, q, p) ==
    IF bins = << >> THEN <<<<q, p>>>>
    ELSE IF Head(bins)[2] = p THEN <<<<Head(bins)[1] + q, p>>>> \o Tail(bins)
    ELSE IF Head(bins)[2] < p THEN <<Head(bins)>> \o InsertBin(Tail(bins), q, p)
    ELSE <<<<q, p>>>> \o bins

RECURSIVE Bins(_, _)
Bins(mq, mc) ==
    IF mq = << >> THEN << >>
    ELSE InsertBin(Bins(Tail(mq), Tail(mc)), Head(mq), Head(mc))

collate(mq, mc) ==
    LET bins == Bins(mq, mc)
    IN <<[i \in DOMAIN bins |-> bins[i][1]], [i \in DOMAIN bins |-> bins[i][2]]>>

\* lines 335-337: the binned curve goes to the key t_end alone
CollateSoc ==
    /\ pc = "collate"
    /\ LET soc_offer == collate(soc_mq, soc_mc)
       IN /\ block_soc_mq' = [p \in {t_end} |-> soc_offer[1]]
          /\ block_soc_mc' = [p \in {t_end} |-> soc_offer[2]]
    /\ pc' = "adjust"
    /\ UNCHANGED <<t, n, walkVars, capacity, bestPrices, blocks, postVars, saved>>
    /\ RTFrame

\* ------------------------------------------------- Agent.make_me_an_offer
\* _increase_discharging_offers: every price of every list, plus adjustment
IncreasedOffers(old_block, adj) ==
    [p \in DOMAIN old_block |-> [i \in DOMAIN old_block[p] |-> old_block[p][i] + adj]]

\* line 83
IncreaseDischargingOffers ==
    /\ pc = "adjust"
    /\ block_dc_mc' = IncreasedOffers(block_dc_mc, adjustment)
    /\ pc' = "save"
    /\ UNCHANGED <<t, n, walkVars, capacity, bestPrices, block_ch_mq, block_ch_mc,
                   block_dc_mq, socBlocks, postVars, saved>>
    /\ RTFrame

\* line 86
SaveJson ==
    /\ pc = "save"
    /\ saved' = [block_ch_mq |-> block_ch_mq, block_ch_mc |-> block_ch_mc,
                 block_dc_mq |-> block_dc_mq, block_dc_mc |-> block_dc_mc,
                 block_soc_mq |-> block_soc_mq, block_soc_mc |-> block_soc_mc]
    /\ pc' = "done"
    /\ UNCHANGED <<t, n, walkVars, capacity, bestPrices, blocks, socBlocks, postVars>>
    /\ RTFrame

RTNext ==
    \/ NoLedgerEntry
    \/ BeginPeriod
    \/ ProcessOrder
    \/ EndPeriod
    \/ CollectPostMarket
    \/ AppendResidual
    \/ SortPostMarket
    \/ WalkOrder
    \/ WalkEnd
    \/ AppendTail
    \/ CollateSoc
    \/ IncreaseDischargingOffers
    \/ SaveJson

\* ------------------------------------ Agent._calculate_opportunity_costs
\* cost units per price unit: efficiency * p, p / efficiency and 0.01 are
\* all integers in cost units
CostScale == 2 * EffNum * EffDen
Raw(p) == p * CostScale
\* p * self.efficiency
TimesEff(p) == p * ((CostScale * EffNum) \div EffDen)
\* p / self.efficiency
OverEff(p) == p * ((CostScale * EffDen) \div EffNum)
\* 0.01
Cent == CostScale \div 100

\* Python's None, where an index is expected
None == -1

\* s[i], indices from 0
At(s, i) == s[i + 1]

\* s[a:b] of Python, for a, b an index or a negative index
PySlice(s, a, b) ==
    LET len == Len(s)
        lo == IF a < 0 THEN Max(len + a, 0) ELSE Min(a, len)
        hi == IF b < 0 THEN Max(len + b, 0) ELSE Min(b, len)
    IN SubSeq(s, lo + 1, hi)

SetMin(S) == CHOOSE x \in S : \A y \in S : x <= y
SetMax(S) == CHOOSE x \in S : \A y \in S : x >= y
\* min() and max() of a list that is not empty
MinOf(s) == SetMin({s[i] : i \in DOMAIN s})
MaxOf(s) == SetMax({s[i] : i \in DOMAIN s})

Costs(ch, dis) == [error |-> "", oc_ch |-> ch, oc_dis |-> dis]
Raises(e) == [error |-> e, oc_ch |-> 0, oc_dis |-> 0]

\* line 439
CombinedList(ch_mq, dis_mq) == [i \in DOMAIN ch_mq |-> dis_mq[i] - ch_mq[i]]

\* line 444: the first charging period, None for none
T1Ch(combined_list) ==
    LET S == {i \in 0..(Len(combined_list) - 1) : At(combined_list, i) < 0}
    IN IF S = {} THEN None ELSE SetMin(S)

\* line 445: the last discharging period, None for none
TLastDis(combined_list) ==
    LET S == {i \in 0..(Len(combined_list) - 1) : At(combined_list, i) > 0}
    IN IF S = {} THEN None ELSE SetMax(S)

\* _calc_oc_charge, lines 501-529
calc_oc_charge(combined_list, p, i) ==
    LET later == {m \in (i + 1)..(Len(combined_list) - 1) : At(combined_list, m) > 0}
    IN IF i < Len(combined_list) - 1 /\ later = {}
       THEN Raises("StopIteration")
       ELSE
       LET found == IF i < Len(combined_list) - 1 THEN SetMin(later) ELSE None
           j == IF found = None \/ found = 0 THEN Min(i + 1, Len(p) - 1) ELSE found
       IN IF i = 0
          THEN IF PySlice(p, 1, j) = << >>
               THEN Raises("ValueError")
               ELSE LET oc_ch == Min(Raw(MinOf(PySlice(p, 1, j))), TimesEff(At(p, j)))
                    IN Costs(oc_ch, oc_ch + Cent)
          ELSE IF PySlice(p, 0, i) = << >>
                  \/ (j > i + 2 /\ PySlice(p, i, j + 1) = << >>)
                  \/ (j < i + 1 /\ PySlice(p, i, j + 1) = << >>)
               THEN Raises("ValueError")
               ELSE
               LET arr1 == MinOf(PySlice(p, 0, i))
                   arr2 == IF j = i + 1 THEN 0
                           ELSE IF j = i + 2 THEN At(p, j - 1)
                           ELSE MaxOf(PySlice(p, i, j + 1))
               IN Costs(TimesEff(MinOf(PySlice(p, 0, i) \o PySlice(p, i + 1, Len(p)))),
                        TimesEff(arr1) + Raw(arr2) - Raw(At(p, i)))

\* _calc_oc_discharge, lines 531-556
calc_oc_discharge(combined_list, p, i) ==
    LET head == PySlice(combined_list, 0, i - 1)
        before == {m \in 0..(Len(head) - 1) : At(head, m) < 0}
        found == IF before = {} THEN None ELSE SetMax(before)
        j == IF found = None \/ found = 0 THEN 0 ELSE found
    IN IF (i # Len(p) - 1 /\ PySlice(p, i + 1, Len(p)) = << >>)
          \/ (j # i - 1 /\ j # i - 2 /\ PySlice(p, j + 1, i) = << >>)
          \/ PySlice(p, j, i) = << >>
       THEN Raises("ValueError")
       ELSE
       LET arr1 == IF i = Len(p) - 1 THEN 0 ELSE MaxOf(PySlice(p, i + 1, Len(p)))
           arr2 == IF j = i - 1 THEN Min(At(p, j), 0)
                   ELSE IF j = i - 2 THEN At(p, j + 1)
                   ELSE MinOf(PySlice(p, j + 1, i))
       IN Costs(TimesEff(At(p, i) - arr2) - Raw(arr1), OverEff(MinOf(PySlice(p, j, i))))

\* _calc_oc_before_first_charge, lines 558-563
calc_oc_before_first_charge(p, t1_idx, i) ==
    IF PySlice(p, i, t1_idx + 1) = << >> \/ PySlice(p, 0, i) = << >>
    THEN Raises("ValueError")
    ELSE Costs(TimesEff(MinOf(PySlice(p, i, t1_idx + 1))), OverEff(MinOf(PySlice(p, 0, i))))

\* _calc_oc_after_last_discharge, lines 565-574
calc_oc_after_last_discharge(p, t_last, i) ==
    IF PySlice(p, t_last, i + 1) = << >>
    THEN Raises("ValueError")
    ELSE Costs(IF i <= Len(p) - 2 THEN TimesEff(MaxOf(PySlice(p, i + 1, Len(p))))
               ELSE Raw(price_floor),
               OverEff(MinOf(PySlice(p, t_last, i + 1))))

\* _calc_oc_between_cycles, lines 576-593
calc_oc_between_cycles(combined_list, p, i) ==
    LET later == {m \in i..(Len(combined_list) - 1) : At(combined_list, m) > 0}
        before == {m \in 0..(i - 1) : At(combined_list, m) < 0}
    IN IF later = {} \/ before = {}
       THEN Raises("TypeError")
       ELSE
       LET j_next == SetMin(later)
           j_prev == SetMax(before)
       IN IF i + 1 > Len(p) - 1
          THEN Raises("IndexError")
          ELSE IF (i > j_prev + 1 /\ PySlice(p, j_prev + 1, i) = << >>)
                  \/ (i < j_next - 1 /\ PySlice(p, i + 1, j_next + 1) = << >>)
          THEN Raises("ValueError")
          ELSE Costs(IF i <= j_prev + 1 THEN Raw(At(p, j_prev))
                     ELSE Max(TimesEff(MaxOf(PySlice(p, j_prev + 1, i))), Raw(At(p, j_prev))),
                     IF i >= j_next - 1
                     THEN Min(Raw(At(p, j_next)), OverEff(At(p, i + 1)))
                     ELSE Min(Raw(At(p, j_next)),
                              OverEff(MinOf(PySlice(p, i + 1, j_next + 1)))))

\* the SoC of a schedule after its first m periods, soc[0] = 0, in units of
\* 1/EffDen MWh
RECURSIVE SocAfter(_, _, _)
SocAfter(ch_mq, dis_mq, m) ==
    IF m = 0 THEN 0
    ELSE SocAfter(ch_mq, dis_mq, m - 1) + EffNum * ch_mq[m] - EffDen * dis_mq[m]

\* the (charge, discharge) a period of a schedule may hold
Flows == {<<0, 0>>, <<chmax, 0>>, <<0, 100>>}
\* the prices of a forecast, within [price_floor, price_ceiling]
Prices == {price_floor, 10, price_ceiling}

\* the schedules _scheduler hands over: feasible (the SoC stays within
\* [0, socmax-socmin]), and by its assertions of lines 630-631 with a
\* charge and a discharge somewhere
Schedules(N) ==
    {f \in [1..N -> Flows] :
        /\ \A m \in 0..N :
              LET soc == SocAfter([i \in 1..N |-> f[i][1]], [i \in 1..N |-> f[i][2]], m)
              IN 0 <= soc /\ soc <= (socmax - socmin) * EffDen
        /\ \E i \in 1..N : f[i][1] > 0
        /\ \E i \in 1..N : f[i][2] > 0}

OCIdle ==
    /\ oc_pc = "idle"
    /\ prices = << >>
    /\ charge_mq = << >>
    /\ discharge_mq = << >>
    /\ idx = 0
    /\ charge_list = << >>
    /\ discharge_list = << >>
    /\ oc_error = ""

\* the call _calculate_opportunity_costs(prices, charge_mq, discharge_mq)
OCInit ==
    /\ oc_pc = "start"
    /\ \E N \in 2..MaxN :
          /\ prices \in [1..N -> Prices]
          /\ \E f \in Schedules(N) :
                /\ charge_mq = [i \in 1..N |-> f[i][1]]
                /\ discharge_mq = [i \in 1..N |-> f[i][2]]
    /\ idx = 0
    /\ charge_list = << >>
    /\ discharge_list = << >>
    /\ oc_error = ""

combined == CombinedList(charge_mq, discharge_mq)

\* lines 439-451
OCStart ==
    /\ oc_pc = "start"
    /\ IF T1Ch(combined) = None \/ TLastDis(combined) = None
       THEN oc_pc' = "raised" /\ oc_error' = "AssertionError"
       ELSE oc_pc' = "loop" /\ oc_error' = ""
    /\ UNCHANGED <<prices, charge_mq, discharge_mq, idx, charge_list, discharge_list>>
    /\ OCFrame

\* lines 477-480 after the costs of period idx, or the exception leaving
\* the call
OCSave(r) ==
    /\ IF r.error # ""
       THEN /\ oc_pc' = "raised"
            /\ oc_error' = r.error
            /\ UNCHANGED <<idx, charge_list, discharge_list>>
       ELSE /\ charge_list' = Append(charge_list, r.oc_ch)
            /\ discharge_list' = Append(discharge_list, r.oc_dis)
            /\ idx' = idx + 1
            /\ UNCHANGED <<oc_pc, oc_error>>
    /\ UNCHANGED <<prices, charge_mq, discharge_mq>>

InLoop == oc_pc = "loop" /\ idx < Len(combined)

\* lines 461-462
OCCharge ==
    /\ InLoop /\ At(combined, idx) < 0
    /\ OCSave(calc_oc_charge(combined, prices, idx))
    /\ OCFrame

\* lines 464-465
OCDischarge ==
    /\ InLoop /\ At(combined, idx) > 0
    /\ OCSave(calc_oc_discharge(combined, prices, idx))
    /\ OCFrame

\* lines 468-469
OCBeforeFirstCharge ==
    /\ InLoop /\ At(combined, idx) = 0
    /\ idx < T1Ch(combined)
    /\ OCSave(calc_oc_before_first_charge(prices, T1Ch(combined), idx))
    /\ OCFrame

\* lines 471-472
OCAfterLastDischarge ==
    /\ InLoop /\ At(combined, idx) = 0
    /\ ~(idx < T1Ch(combined)) /\ idx > TLastDis(combined)
    /\ OCSave(calc_oc_after_last_discharge(prices, TLastDis(combined), idx))
    /\ OCFrame

\* lines 474-475
OCBetweenCycles ==
    /\ InLoop /\ At(combined, idx) = 0
    /\ ~(idx < T1Ch(combined)) /\ ~(idx > TLastDis(combined))
    /\ OCSave(calc_oc_between_cycles(combined, prices, idx))
    /\ OCFrame

Abs(x) == IF x < 0 THEN -x ELSE x

\* lines 482-485
OCReturn ==
    /\ oc_pc = "loop" /\ idx = Len(combined)
    /\ IF SumSeq([i \in DOMAIN charge_list |-> Abs(charge_list[i])]) > 0
          /\ SumSeq([i \in DOMAIN discharge_list |-> Abs(discharge_list[i])]) > 0
       THEN oc_pc' = "returned" /\ oc_error' = ""
       ELSE oc_pc' = "raised" /\ oc_error' = "AssertionError"
    /\ UNCHANGED <<prices, charge_mq, discharge_mq, idx, charge_list, discharge_list>>
    /\ OCFrame

OCNext ==
    \/ OCStart
    \/ OCCharge
    \/ OCDischarge
    \/ OCBeforeFirstCharge
    \/ OCAfterLastDischarge
    \/ OCBetweenCycles
    \/ OCReturn

\* ------------------------------------------------------- Agent._scheduler
\* lines 606-608: the bounds of the solver's variables; those of dasoc in
\* units of 1/EffDen MWh
ChargeUpper == chmax
DischargeUpper == dcmax
DasocUpper == socmax * EffDen

\* the values a charge and a discharge variable take in the model
ChargeLevels == {0, chmax}
DischargeLevels == {0, 100, dcmax}

SchedIdle ==
    /\ sched_pc = "idle"
    /\ number_step = 0
    /\ charge = << >>
    /\ discharge = << >>
    /\ dasoc = <<0>>

\* lines 597-609: the call _scheduler(prices); dasoc[0] = 0
SchedInit ==
    /\ sched_pc = "constraints"
    /\ number_step \in 1..MaxSteps
    /\ charge = << >>
    /\ discharge = << >>
    /\ dasoc = <<0>>

\* lines 606-608 and 615: values of charge[i], discharge[i] and dasoc[i+1]
\* within the variables' bounds that satisfy the constraint of period i
SatisfyPeriod ==
    /\ sched_pc = "constraints" /\ Len(charge) < number_step
    /\ \E c \in ChargeLevels, d \in DischargeLevels :
          LET next == dasoc[Len(dasoc)] + EffNum * c - EffDen * d
          IN /\ 0 <= c /\ c <= ChargeUpper
             /\ 0 <= d /\ d <= DischargeUpper
             /\ 0 <= next /\ next <= DasocUpper
             /\ charge' = Append(charge, c)
             /\ discharge' = Append(discharge, d)
             /\ dasoc' = Append(dasoc, next)
    /\ UNCHANGED <<sched_pc, number_step>>
    /\ SchedFrame

\* lines 616-633: the solution is read, and returned when it charges and
\* discharges somewhere
SchedReturn ==
    /\ sched_pc = "constraints" /\ Len(charge) = number_step
    /\ sched_pc' = IF SumSeq(charge) > 0 /\ SumSeq(discharge) > 0
                   THEN "returned" ELSE "raised"
    /\ UNCHANGED <<number_step, charge, discharge, dasoc>>
    /\ SchedFrame

SchedNext ==
    \/ SatisfyPeriod
    \/ SchedReturn

\* ------------------------------------------------- Agent._offer_to_dicts
\* a value of Python with the name of its type
Number(v) == [type |-> "int", value |-> <<v>>]
List(items) == [type |-> "list", value |-> items]
NoneValue == [type |-> "NoneType", value |-> << >>]

\* isinstance(x, (int, float)) and isinstance(x, list)
IsNumber(x) == x.type \in {"int", "float"}
IsList(x) == x.type = "list"

\* what a period of mq_list and of mc_list may hold
MqValues == {Number(chmax), List(<<chmax>>), List(<<60, 65>>), NoneValue}
McValues == {Number(0), List(<<0>>), List(<<20, 5>>), NoneValue}

NoError == [kind |-> "", text |-> "", fields |-> << >>]
NoReturn == << >>

DictsIdle ==
    /\ d_pc = "idle"
    /\ mq_list = << >> /\ mc_list = << >>
    /\ d_i = 1
    /\ mq_dict = << >> /\ mc_dict = << >>
    /\ collate_calls = 0
    /\ d_error = NoError
    /\ d_return = NoReturn

\* the call _offer_to_dicts(mq_list, mc_list): both arguments left at None
\* (the empty lists here), or one value for each period
DictsInit ==
    /\ d_pc = "start"
    /\ \/ mq_list = << >> /\ mc_list = << >>
       \/ mq_list \in [1..TEnd -> MqValues] /\ mc_list \in [1..TEnd -> McValues]
    /\ d_i = 1
    /\ mq_dict = << >> /\ mc_dict = << >>
    /\ collate_calls = 0
    /\ d_error = NoError
    /\ d_return = NoReturn

\* lines 121-123
DictsZeros ==
    /\ d_pc = "start" /\ mq_list = << >> /\ mc_list = << >>
    /\ d_return' = <<[p \in 1..TEnd |-> Number(0)], [p \in 1..TEnd |-> Number(0)]>>
    /\ d_pc' = "returned"
    /\ UNCHANGED <<mq_list, mc_list, d_i, mq_dict, mc_dict, collate_calls, d_error>>
    /\ DictsFrame

\* lines 125-127
DictsBegin ==
    /\ d_pc = "start" /\ ~(mq_list = << >> /\ mc_list = << >>)
    /\ d_pc' = "loop"
    /\ UNCHANGED <<mq_list, mc_list, d_i, mq_dict, mc_dict, collate_calls, d_error, d_return>>
    /\ DictsFrame

DictsInLoop == d_pc = "loop" /\ d_i <= TEnd

\* lines 130-133
DictsScalar ==
    /\ DictsInLoop
    /\ IsNumber(mc_list[d_i]) /\ IsNumber(mq_list[d_i])
    /\ mq_dict' = Append(mq_dict, mq_list[d_i])
    /\ mc_dict' = Append(mc_dict, mc_list[d_i])
    /\ d_i' = d_i + 1
    /\ UNCHANGED <<d_pc, mq_list, mc_list, collate_calls, d_error, d_return>>
    /\ DictsFrame

\* line 135: the message of a failed assertion
LengthError(time) ==
    [kind |-> "AssertionError",
     text |-> "charge mc and mq have different length, period {time}",
     fields |-> [time |-> time]]

\* lines 134-140
DictsList ==
    /\ DictsInLoop
    /\ ~(IsNumber(mc_list[d_i]) /\ IsNumber(mq_list[d_i]))
    /\ IsList(mc_list[d_i]) /\ IsList(mq_list[d_i])
    /\ IF Len(mc_list[d_i].value) = Len(mq_list[d_i].value)
       THEN LET offer == collate(mq_list[d_i].value, mc_list[d_i].value)
            IN /\ collate_calls' = collate_calls + 1
               /\ mq_dict' = Append(mq_dict, List(offer[1]))
               /\ mc_dict' = Append(mc_dict, List(offer[2]))
               /\ d_i' = d_i + 1
               /\ UNCHANGED <<d_pc, d_error>>
       ELSE /\ d_pc' = "raised"
            /\ d_error' = LengthError(d_i)
            /\ UNCHANGED <<d_i, mq_dict, mc_dict, collate_calls>>
    /\ UNCHANGED <<mq_list, mc_list, d_return>>
    /\ DictsFrame

\* line 142: the message of the TypeError
UnsupportedError(time, mq, mc) ==
    [kind |-> "TypeError",
     text |-> "unsupported charge offer types: mc is {type(mc)}, mq is {type(mq)}",
     fields |-> [mc |-> mc.type, mq |-> mq.type]]

\* lines 141-142
DictsUnsupported ==
    /\ DictsInLoop
    /\ ~(IsNumber(mc_list[d_i]) /\ IsNumber(mq_list[d_i]))
    /\ ~(IsList(mc_list[d_i]) /\ IsList(mq_list[d_i]))
    /\ d_pc' = "raised"
    /\ d_error' = UnsupportedError(d_i, mq_list[d_i], mc_list[d_i])
    /\ UNCHANGED <<mq_list, mc_list, d_i, mq_dict, mc_dict, collate_calls, d_return>>
    /\ DictsFrame

\* line 143
DictsReturn ==
    /\ d_pc = "loop" /\ d_i > TEnd
    /\ d_return' = <<mq_dict, mc_dict>>
    /\ d_pc' = "returned"
    /\ UNCHANGED <<mq_list, mc_list, d_i, mq_dict, mc_dict, collate_calls, d_error>>
    /\ DictsFrame

DictsNext ==
    \/ DictsZeros
    \/ DictsBegin
    \/ DictsScalar
    \/ DictsList
    \/ DictsUnsupported
    \/ DictsReturn

\* ------------------------------------------------------------ specifications
RTIdle ==
    /\ pc = "idle"
    /\ t = 1
    /\ n = 0
    /\ order = NoOrder
    /\ branch = "none"
    /\ warnings = << >>
    /\ soc_available = 0 /\ soc_headroom = Capacity
    /\ best_dc_price = price_floor
    /\ best_ch_price = price_ceiling
    /\ block_ch_mq = << >> /\ block_ch_mc = << >>
    /\ block_dc_mq = << >> /\ block_dc_mc = << >>
    /\ block_soc_mq = << >> /\ block_soc_mc = << >>
    /\ ledger_rest = [p \in OutPeriods |-> << >>]
    /\ post_market_sorted = << >>
    /\ k = 0
    /\ remaining_capacity = 0
    /\ soc_mq = << >> /\ soc_mc = << >>
    /\ saved = NoOffer

\* a real-time invocation: make_me_an_offer with an RTM market type
Init == RTInit /\ OCIdle /\ SchedIdle /\ DictsIdle
Next == RTNext
Spec == Init /\ [][Next]_vars

\* a call of _calculate_opportunity_costs
InitOC == OCInit /\ RTIdle /\ SchedIdle /\ DictsIdle
NextOC == OCNext
SpecOC == InitOC /\ [][NextOC]_vars

\* the schedules that satisfy the constraints _scheduler gives the solver
InitSched == SchedInit /\ RTIdle /\ OCIdle /\ DictsIdle
NextSched == SchedNext
SpecSched == InitSched /\ [][NextSched]_vars

\* a call of _offer_to_dicts
InitDicts == DictsInit /\ RTIdle /\ OCIdle /\ SchedIdle
NextDicts == DictsNext
SpecDicts == InitDicts /\ [][NextDicts]_vars

\* ------------------------------------------------ claims on _real_time_offer
\* a step of the ledger walk: ProcessOrder is the one action that counts n up
WalkStep == n' = n + 1

\* C1: soc_available and soc_headroom are both within [0, socmax-socmin]
\* after every ledger entry, for every initial SoC and every ledger.
C1_CapacityWithinBounds ==
    /\ 0 <= soc_available /\ soc_available <= Capacity
    /\ 0 <= soc_headroom /\ soc_headroom <= Capacity

\* C2: a charge entry (mq < 0) whose energy |mq|*5/60 is within soc_headroom
\* decreases soc_headroom and increases soc_available by
\* efficiency*|mq|*5/60, and sets best_charge_price to min(best, mc).
C2_ChargeWithinHeadroom ==
    [][(WalkStep /\ order'[1] < 0 /\ -Energy(order'[1]) <= soc_headroom)
         => /\ soc_headroom' = soc_headroom - EffEnergy(-order'[1])
            /\ soc_available' = soc_available + EffEnergy(-order'[1])
            /\ best_ch_price' = Min(best_ch_price, order'[2])]_vars

\* C3: a discharge entry (mq > 0) whose energy mq*5/60 is at most
\* soc_available decreases soc_available by exactly mq*5/60, increases
\* soc_headroom by exactly mq*5/60, sets best_discharge_price to
\* max(best, mc) and emits no warning.
C3_DischargeWithinAvailable ==
    [][(WalkStep /\ order'[1] > 0 /\ Energy(order'[1]) <= soc_available)
         => /\ soc_available' = soc_available - Energy(order'[1])
            /\ soc_headroom' = soc_headroom + Energy(order'[1])
            /\ best_dc_price' = Max(best_dc_price, order'[2])
            /\ warnings' = << >>]_vars

\* C3's case: 600 MW discharged for 5 minutes out of 100 MWh available
C3_Witness ==
    /\ branch = "discharge"
    /\ order[1] = 600
    /\ soc_available = 50 * Scale
    /\ soc_headroom = Capacity - 50 * Scale
    /\ best_dc_price = 20
    /\ warnings = << >>

\* C4: a charge entry whose energy exceeds soc_headroom sets soc_headroom to
\* 0 and soc_available to socmax-socmin and updates best_charge_price; a
\* discharge entry whose energy exceeds soc_available sets soc_available to
\* 0 and soc_headroom to socmax-socmin and updates best_discharge_price; in
\* both cases the walk goes on and exactly one warning is logged for the
\* entry.
C4_OverflowClamps ==
    [][/\ (WalkStep /\ order'[1] < 0 /\ -Energy(order'[1]) > soc_headroom)
            => /\ soc_headroom' = 0
               /\ soc_available' = Capacity
               /\ best_ch_price' = Min(best_ch_price, order'[2])
               /\ best_dc_price' = best_dc_price
               /\ Len(warnings') = 1
               /\ pc' = "orders"
       /\ (WalkStep /\ order'[1] > 0 /\ Energy(order'[1]) > soc_available)
            => /\ soc_available' = 0
               /\ soc_headroom' = Capacity
               /\ best_dc_price' = Max(best_dc_price, order'[2])
               /\ best_ch_price' = best_ch_price
               /\ Len(warnings') = 1
               /\ pc' = "orders"]_vars

\* C4's case: an overflowing discharge, processed after a charge in the same
\* period, has clamped the capacity with one warning
C4_Witness ==
    /\ n = 2
    /\ branch = "discharge_overflow"
    /\ order = <<6000, 20>>
    /\ best_ch_price = 5
    /\ best_dc_price = 20
    /\ soc_available = 0 /\ soc_headroom = Capacity
    /\ Len(warnings) = 1

\* no order of a horizon period was processed: every horizon period is
\* missing from the ledger or has an empty list
EmptyHorizonLedger == order = NoOrder

\* C5 as stated: with no ledger entries for any horizon period, the saved
\* offer holds for every horizon period a charge curve of the one entry
\* chmax at price 0 and a discharge curve of the one entry dcmax at price 0.
C5_SavedSlackAtZero ==
    (pc = "done" /\ EmptyHorizonLedger) =>
        /\ DOMAIN saved.block_ch_mq = 1..TEnd
        /\ DOMAIN saved.block_dc_mq = 1..TEnd
        /\ \A p \in 1..TEnd :
              /\ saved.block_ch_mq[p] = <<chmax>> /\ saved.block_ch_mc[p] = <<0>>
              /\ saved.block_dc_mq[p] = <<dcmax>> /\ saved.block_dc_mc[p] = <<0>>

\* C5 amended: the one discharge entry is saved at the price 0 + adjustment
\* that _increase_discharging_offers gives it; the charge entry stays at 0.
C5_SavedSlackAdjusted ==
    (pc = "done" /\ EmptyHorizonLedger) =>
        /\ DOMAIN saved.block_ch_mq = 1..TEnd
        /\ DOMAIN saved.block_ch_mc = 1..TEnd
        /\ DOMAIN saved.block_dc_mq = 1..TEnd
        /\ DOMAIN saved.block_dc_mc = 1..TEnd
        /\ \A p \in 1..TEnd :
              /\ saved.block_ch_mq[p] = <<chmax>> /\ saved.block_ch_mc[p] = <<0>>
              /\ saved.block_dc_mq[p] = <<dcmax>>
              /\ saved.block_dc_mc[p] = <<0 + adjustment>>

\* C5's case: an offer saved from a ledger without any entry
C5_Witness ==
    /\ pc = "done"
    /\ EmptyHorizonLedger
    /\ \A p \in OutPeriods : ledger_rest[p] = << >>
    /\ Len(saved.block_dc_mq) = TEnd

NonIncreasing(list) ==
    \A i, j \in DOMAIN list : i < j => list[i] >= list[j]

Range(list) == {list[i] : i \in DOMAIN list}

Occurrences(list, x) == Cardinality({i \in DOMAIN list : list[i] = x})

\* C10: the ledger's entries strictly after the last horizon period are
\* walked in non-increasing price order; after the walk, what is left of
\* soc_available above 1e-2 is appended as one entry at price_ceiling; the
\* last entry of the raw SoC list is (soc_headroom, 0), soc_headroom as the
\* ledger walk left it; the curve goes to the last horizon period alone.
C10_PostHorizonValuation ==
    /\ pc \in {"walk", "tail", "collate", "adjust", "save", "done"} =>
          /\ Len(post_market_sorted) = Len(ledger_rest[TEnd + 1])
          /\ \A o \in Range(post_market_sorted) \cup Range(ledger_rest[TEnd + 1]) :
                Occurrences(post_market_sorted, o) = Occurrences(ledger_rest[TEnd + 1], o)
          /\ NonIncreasing([i \in DOMAIN post_market_sorted |-> post_market_sorted[i][2]])
    /\ pc \in {"walk", "tail"} => NonIncreasing(soc_mc)
    /\ pc \in {"collate", "adjust", "save", "done"} =>
          LET last == Len(soc_mq)
          IN /\ last >= 1 /\ Len(soc_mc) = last
             /\ soc_mq[last] = soc_headroom /\ soc_mc[last] = 0
             /\ remaining_capacity > Tolerance =>
                   /\ last >= 2
                   /\ soc_mq[last - 1] = remaining_capacity
                   /\ soc_mc[last - 1] = price_ceiling
             /\ Occurrences(soc_mc, price_ceiling) =
                   IF remaining_capacity > Tolerance THEN 1 ELSE 0
    /\ pc \in {"adjust", "save", "done"} =>
          /\ DOMAIN block_soc_mq = {TEnd} /\ DOMAIN block_soc_mc = {TEnd}
          /\ block_soc_mq[TEnd] = collate(soc_mq, soc_mc)[1]
          /\ block_soc_mc[TEnd] = collate(soc_mq, soc_mc)[2]
    /\ pc = "done" =>
          /\ saved.block_soc_mq = block_soc_mq
          /\ saved.block_soc_mc = block_soc_mc

\* C10's case: two later orders of different prices were sorted and walked,
\* orders of a past period were left out, capacity is left over
C10_Witness ==
    /\ pc = "done"
    /\ ledger_rest[0] # << >>
    /\ ledger_rest[TEnd + 1] = <<<<-12, 5>>, <<600, 20>>>>
    /\ post_market_sorted = <<<<600, 20>>, <<-12, 5>>>>
    /\ k = 2
    /\ remaining_capacity > Tolerance
    /\ soc_mq = <<600 * Scale, remaining_capacity, soc_headroom>>
    /\ soc_mc = <<20, price_ceiling, 0>>
    /\ soc_headroom > 0
    /\ DOMAIN saved.block_soc_mq = {TEnd}

\* --------------------------------------------- claims on the other operations
\* C6: _calculate_opportunity_costs returns a (charge_cost, discharge_cost)
\* pair for every period, without aborting, for every price sequence of
\* length N >= 2 and every SoC-feasible schedule that charges somewhere and
\* discharges somewhere.
C6_ReturnsForEveryPeriod ==
    /\ oc_pc # "raised"
    /\ oc_pc = "returned" =>
          /\ Len(charge_list) = Len(prices)
          /\ Len(discharge_list) = Len(prices)

\* C7: every schedule that satisfies the constraints _scheduler gives the
\* solver has an SoC trajectory within [0, socmax-socmin] for all t.
C7_TrajectoryWithinCapacity ==
    \A i \in DOMAIN dasoc : 0 <= dasoc[i] /\ dasoc[i] <= (socmax - socmin) * EffDen

\* C8: for prices within [price_floor, price_ceiling], every charge cost and
\* every discharge cost of _calculate_opportunity_costs lies in
\* [price_floor, price_ceiling].
C8_CostsWithinPriceLimits ==
    /\ \A i \in DOMAIN charge_list :
          Raw(price_floor) <= charge_list[i] /\ charge_list[i] <= Raw(price_ceiling)
    /\ \A i \in DOMAIN discharge_list :
          Raw(price_floor) <= discharge_list[i] /\ discharge_list[i] <= Raw(price_ceiling)

\* C9: _offer_to_dicts stores a scalar pair unchanged without calling the
\* binner, replaces a pair of equal-length lists by the binner's output, and
\* on any other combination aborts with an error whose diagnostic names the
\* offending period and the types, returning no dictionaries.
C9_HandlesPairByShape ==
    [][(d_pc = "loop" /\ (d_i' = d_i + 1 \/ d_pc' = "raised")) =>
         LET mq == mq_list[d_i]
             mc == mc_list[d_i]
         IN IF IsNumber(mq) /\ IsNumber(mc)
            THEN /\ d_pc' = "loop"
                 /\ mq_dict' = Append(mq_dict, mq) /\ mc_dict' = Append(mc_dict, mc)
                 /\ collate_calls' = collate_calls
            ELSE IF IsList(mq) /\ IsList(mc) /\ Len(mq.value) = Len(mc.value)
            THEN /\ d_pc' = "loop"
                 /\ mq_dict' = Append(mq_dict, List(collate(mq.value, mc.value)[1]))
                 /\ mc_dict' = Append(mc_dict, List(collate(mq.value, mc.value)[2]))
                 /\ collate_calls' = collate_calls + 1
            ELSE /\ d_pc' = "raised"
                 /\ d_return' = NoReturn
                 /\ {"time", "mc", "mq"} \subseteq DOMAIN d_error'.fields
                 /\ d_error'.fields.time = d_i
                 /\ d_error'.fields.mc = mc.type
                 /\ d_error'.fields.mq = mq.type]_vars

\* period i of the schedule is followed by no discharging period
NoLaterDischarge(combined_list, i) ==
    \A m \in (i + 1)..(Len(combined_list) - 1) : At(combined_list, m) <= 0

\* C11: _calc_oc_charge, for a charging period i that no discharging period
\* follows, falls back to the lookahead index min(i+1, N-1) and returns a
\* cost pair, for every i in 0..N-1 and not only for i = N-1.
C11_ChargeWithoutLaterDischarge ==
    [][(/\ InLoop
        /\ At(combined, idx) < 0
        /\ NoLaterDischarge(combined, idx)
        /\ (idx' = idx + 1 \/ oc_pc' = "raised"))
         => /\ oc_pc' = "loop"
            /\ oc_error' = ""
            /\ idx' = idx + 1
            /\ Len(charge_list') = Len(charge_list) + 1
            /\ Len(discharge_list') = Len(discharge_list) + 1]_vars

\* ------------------------------------- further claims on _real_time_offer
\* the walk has appended the entry of an order that exhausted the capacity:
\* a quantity 0 before the last place of the raw SoC list
ExhaustedEntry(mq) ==
    \E i \in DOMAIN mq : mq[i] = 0 /\ (pc \in {"walk", "tail"} \/ i < Len(mq))

\* C12: in the post-horizon walk, a discharging entry whose energy mq*5/60
\* is larger than the positive remaining capacity sets the remaining
\* capacity to 0 and appends the quantity 0 at the entry's price; the next
\* entry ends the walk, and no price_ceiling entry is added.
C12_ExhaustingEntryAppendsZero ==
    /\ [][(pc = "walk" /\ k' = k + 1) =>
            LET mq == post_market_sorted[k + 1][1]
                mc == post_market_sorted[k + 1][2]
            IN /\ (0 < remaining_capacity /\ remaining_capacity < Energy(mq))
                    => /\ remaining_capacity' = 0
                       /\ soc_mq' = Append(soc_mq, 0)
                       /\ soc_mc' = Append(soc_mc, mc)
                       /\ pc' = "walk"
               /\ ExhaustedEntry(soc_mq)
                    => /\ pc' = "tail"
                       /\ remaining_capacity' = 0
                       /\ soc_mq' = soc_mq /\ soc_mc' = soc_mc]_vars
    /\ [](pc \in {"walk", "tail"} /\ ExhaustedEntry(soc_mq) => remaining_capacity = 0)
    /\ [](pc \in {"collate", "adjust", "save", "done"} /\ ExhaustedEntry(soc_mq)
            => /\ Occurrences(soc_mc, price_ceiling) = 0
               /\ soc_mq[Len(soc_mq)] = soc_headroom
               /\ soc_mq[Len(soc_mq) - 1] = 0)

\* C12's case: with capacity left, the order of 6000 MW exhausted it and was
\* entered with the quantity 0 at its price 5; the order after it ended the
\* walk; the list was closed with the headroom alone
C12_Witness ==
    /\ pc = "done"
    /\ soc_available > 0
    /\ post_market_sorted = <<<<6000, 5>>, <<-12, 5>>>>
    /\ k = 2
    /\ remaining_capacity = 0
    /\ soc_mq = <<0, soc_headroom>>
    /\ soc_mc = <<5, 0>>

\* C13: throughout the ledger walk soc_available + soc_headroom equals
\* socmax - socmin after every ledger entry, for every initial SoC and every
\* ledger, in all branches (charge, discharge, both overflow clamps).
C13_CapacitySumConstant ==
    soc_available + soc_headroom = Capacity

\* C13's case: from 100 MWh available, a discharge of 600 MW and then a
\* charge of 12 MW, each for 5 minutes
C13_Witness ==
    /\ n = 2
    /\ branch = "charge"
    /\ order[1] = -12
    /\ soc_available = 100 * Scale - Energy(600) + EffEnergy(-12)
    /\ soc_headroom = Capacity - soc_available

\* C14: every ledger entry (mq, mc), for any mq including mq = 0 and in any
\* reachable capacity state, falls into one of the four cases (charge within
\* headroom, discharge within availability, charge overflow, discharge
\* overflow); the branch that warns of a faulty set of cases is never
\* reached.
C14_FourCasesExhaustive ==
    /\ branch # "faulty"
    /\ pc = "orders" /\ n > 0 =>
          branch \in {"charge", "discharge", "charge_overflow", "discharge_overflow"}

\* the curves _real_time_offer returns: the state at its return, before
\* make_me_an_offer adjusts the discharge prices
Returned == pc = "adjust"

\* C15: the charge and discharge curves _real_time_offer returns do not
\* depend on the ledger or the initial SoC: every horizon period's charge
\* curve is [chmax] at [0] and its discharge curve [dcmax] at [0]; the
\* residual after the slack offer is never above 1e-2, so no entry at
\* best_charge_price or best_discharge_price is appended.
C15_ReturnedCurvesAreSlack ==
    /\ pc \in {"sort", "walk", "tail", "collate", "adjust"} =>
          /\ DOMAIN block_ch_mq = 1..TEnd /\ DOMAIN block_ch_mc = 1..TEnd
          /\ DOMAIN block_dc_mq = 1..TEnd /\ DOMAIN block_dc_mc = 1..TEnd
          /\ \A p \in 1..TEnd :
                /\ block_ch_mq[p] = <<chmax>> /\ block_ch_mc[p] = <<0>>
                /\ block_dc_mq[p] = <<dcmax>> /\ block_dc_mc[p] = <<0>>
    /\ pc = "residual" =>
          \A p \in 1..TEnd : /\ ~((chmax - SumSeq(block_ch_mq[p])) * 100 > 1)
                             /\ ~((dcmax - SumSeq(block_dc_mq[p])) * 100 > 1)

\* C15's case: curves returned from a ledger whose orders moved the SoC and
\* both best prices
C15_Witness ==
    /\ Returned
    /\ order # NoOrder
    /\ best_ch_price = 5
    /\ best_dc_price = 20
    /\ soc_available \notin {(s - socmin) * Scale : s \in InitialSoc}
    /\ ledger_rest[TEnd + 1] # << >>
    /\ block_ch_mq = [p \in 1..TEnd |-> <<chmax>>]
    /\ block_dc_mc = [p \in 1..TEnd |-> <<0>>]

====
